---- MODULE Spec2Model ----
(***************************************************************************)
(* AutoGuardian dashboard: the refresh scheduling of the React page        *)
(* (frontend/src/pages/Dashboard.js) and of the server-rendered page       *)
(* (static/js/dashboard.js), and the metric aggregation of the latter.     *)
(*                                                                         *)
(* A browser tab runs one of the two pages: `page` says which.  Every      *)
(* action is one run-to-completion step of the JavaScript event loop: a    *)
(* handler up to its next `await`, or the continuation after one.  The     *)
(* latency of a request is arbitrary: its completion is an action of its   *)
(* own that may be taken at any later moment relative to the timers.       *)
(***************************************************************************)
EXTENDS Integers, Sequences, FiniteSets, TLC

VARIABLES
    page,           \* "react" (Dashboard.js) or "static" (static/js/dashboard.js)
    ev,             \* the handler step taken last (history variable)
    notice,         \* the last alert / console report emitted
    \* ---- Dashboard.js
    data,           \* useState(null): 0 is null, n > 0 the body answered to fetch n
    loading,        \* useState(true)
    rescanLoading,  \* useState(false)
    inflight,       \* calls of fetchDashboardData awaiting their response
    nextId,         \* issue number of the next fetchDashboardData call
    rs,             \* per call of handleRescan: where it stands
    polls,          \* per call of handleRescan: its closure variable `polls`
    \* ---- static/js/dashboard.js
    scanHistory,    \* let scanHistory (line 4)
    collective,     \* let collective (line 5)
    shown,          \* what the elements and the six charts show
    lastRefreshed,  \* the text of #lastRefreshed: 0 as served, else the time written
    btnText,        \* the text of #refreshBtn
    pendingTicks,   \* auto-refresh callbacks awaiting their response
    pendingRescans, \* click handlers awaiting the answer to POST /rescan
    \* ---- frontend/src/pages/Settings.js
    user,           \* useState (line 10): the plan field of the user
    loadingUser,    \* useState(true), line 17
    inboxLoading,   \* useState(true), line 71
    inboxStatus,    \* useState (line 72): the connected field of the status
    imapSaving,     \* useState(false), line 88
    disconnecting,  \* useState(false), line 89
    calls,          \* fetches of Settings.js awaiting their response
    connects,       \* clicks on Connect Inbox so far
    disconnects     \* clicks on Disconnect so far

reactVars == <<data, loading, rescanLoading, inflight, nextId, rs, polls>>
staticVars == <<scanHistory, collective, shown, lastRefreshed, btnText,
                pendingTicks, pendingRescans>>
settingsVars == <<user, loadingUser, inboxLoading, inboxStatus, imapSaving,
                  disconnecting, calls, connects, disconnects>>
vars == <<page, ev, notice, reactVars, staticVars, settingsVars>>

\* ------------------------------------------------------------------ bounds
MaxRescans == 2     \* calls of handleRescan followed in one behaviour
MaxPolls == 6       \* ticks of one poll interval followed (the code stops none)
MaxInFlight == 2    \* calls of fetchDashboardData awaiting at once
MaxPending == 2     \* requests of one kind the static page has awaiting at once
MaxStamps == 2      \* distinct times of day written to #lastRefreshed
MaxLen == 3         \* records of a scan history whose buckets and averages are followed
MaxTrendLen == 6    \* records of a scan history whose trend is followed
MaxCollLen == 2     \* collective records whose rankings are followed

\* ------------------------------------------------------- program constants
PollLimit == 5      \* Dashboard.js:54  if (polls >= 5)
HighMin == 14       \* dashboard.js:24  s >= 7, in halves
MediumMin == 8      \* dashboard.js:25  s >= 4, in halves
TopCount == 7       \* dashboard.js:103  slice(0,7)
ThreatWeightTenths == 31  \* dashboard.js:227  avgScore * 3.1
TrendWindow == 5    \* dashboard.js:199  hy.slice(-5)
TrendStep == 2      \* dashboard.js:202  diff > 1, in halves
SafeBelow == 4      \* dashboard.js:207  overall < 4
MediumBelow == 7    \* dashboard.js:210  overall < 7

Rescans == 1..MaxRescans

\* =========================================================================
\* JavaScript values, as far as this code reads them
\* =========================================================================
\* A number n stands for n/2: scores are followed in steps of one half, so that
\* 6.5 and 7 differ.  A string is its sequence of characters.  An object is
\* the function from the names of the properties it has to their values.
Undef == [t |-> "undef"]
Null == [t |-> "null"]
Num(n) == [t |-> "num", n |-> n]
Str(s) == [t |-> "str", s |-> s]
Bool(b) == [t |-> "bool", b |-> b]
Arr(a) == [t |-> "arr", a |-> a]
Obj(f) == [t |-> "obj", f |-> f]

\* ToBoolean, as `||`, `if`, `filter(Boolean)` and `filter(e => e.x)` apply it.
Truthy(v) ==
    CASE v.t = "undef" -> FALSE
      [] v.t = "null" -> FALSE
      [] v.t = "num" -> v.n # 0
      [] v.t = "str" -> v.s # <<>>
      [] v.t = "bool" -> v.b
      [] OTHER -> TRUE

\* a || b
Or(a, b) == IF Truthy(a) THEN a ELSE b

\* e.k for e neither null nor undefined (a primitive has no such property).
Get(e, k) == IF e.t = "obj" /\ k \in DOMAIN e.f THEN e.f[k] ELSE Undef

\* e?.k
GetOpt(e, k) == IF e.t \in {"undef", "null"} THEN Undef ELSE Get(e, k)

\* e.k throws a TypeError
NoProps(e) == e.t \in {"undef", "null"}

RECURSIVE SumSeq(_)
SumSeq(q) == IF q = <<>> THEN 0 ELSE Head(q) + SumSeq(Tail(q))

\* [f(x) : x in q] is written [i \in DOMAIN q |-> f(q[i])] below (Array.map).
CountIf(q, P(_)) == Cardinality({i \in DOMAIN q : P(q[i])})

\* =========================================================================
\* static/js/dashboard.js: the aggregation
\* =========================================================================
\* The result of an arithmetic expression: the exact quotient num/den (den > 0),
\* or NaN.  A double carries it exactly enough for Math.round to agree as long
\* as an array holds at most 10 elements of halves between 0 and 10 (see fmt).
Real(num, den) == [num |-> num, den |-> den, nan |-> FALSE]
NaN == [num |-> 0, den |-> 1, nan |-> TRUE]

\* const avg = arr => arr.length ? arr.reduce((a,b)=>a+b,0)/arr.length : 0
\* An element that is no number (undefined, an object, a non-numeric string)
\* makes the quotient NaN.
avg(arr) ==
    IF Len(arr) = 0 THEN Real(0, 1)
    ELSE IF \E i \in DOMAIN arr : arr[i].t # "num" THEN NaN
    ELSE Real(SumSeq([i \in DOMAIN arr |-> arr[i].n]), 2 * Len(arr))

\* fmt with Math.floor in the place of Math.round.
fmtTruncating(x) == IF x.nan THEN 0 ELSE (100 * x.num) \div x.den

\* const fmt = n => isNaN(n) ? 0 : Math.round(n * 100) / 100
\* The result counts hundredths.  Math.round rounds a half up.
fmt(x) == IF x.nan THEN 0 ELSE (200 * x.num + x.den) \div (2 * x.den)

\* RoundHundredths with Math.floor in the place of Math.round.
RoundHundredthsDown(h) == h \div 100

\* Math.round of a value given in hundredths.
RoundHundredths(h) == (h + 50) \div 100

\* Weighted with the factor 3 in the place of 3.1.
WeightedByThree(x) == IF x.nan THEN NaN ELSE Real(x.num * 3, x.den)

\* x * 3.1
Weighted(x) == IF x.nan THEN NaN ELSE Real(x.num * ThreatWeightTenths, x.den * 10)

\* s.split(c)[0]
RECURSIVE BeforeFirst(_, _)
BeforeFirst(s, c) ==
    IF s = <<>> \/ Head(s) = c THEN <<>>
    ELSE <<Head(s)>> \o BeforeFirst(Tail(s), c)

\* s.split(c)
RECURSIVE Split(_, _)
Split(s, c) ==
    LET first == BeforeFirst(s, c)
    IN  IF Len(first) = Len(s) THEN <<first>>
        ELSE <<first>> \o Split(SubSeq(s, Len(first) + 2, Len(s)), c)

\* s.trim()
RECURSIVE TrimLeft(_)
TrimLeft(s) == IF s # <<>> /\ Head(s) = " " THEN TrimLeft(Tail(s)) ELSE s
RECURSIVE TrimRight(_)
TrimRight(s) ==
    IF s # <<>> /\ s[Len(s)] = " " THEN TrimRight(SubSeq(s, 1, Len(s) - 1)) ELSE s
Trim(s) == TrimRight(TrimLeft(s))

\* q.filter(x => x is not the empty string)
RECURSIVE NonEmpty(_)
NonEmpty(q) ==
    IF q = <<>> THEN <<>>
    ELSE (IF Head(q) = <<>> THEN <<>> ELSE <<Head(q)>>) \o NonEmpty(Tail(q))

\* A plain object used as a counter, obj[key] = (obj[key] || 0) + 1: the keys
\* in the order of their first insertion, as Object.keys / entries give them
\* for keys that are not array indices.
Bump(m, key) ==
    IF \E i \in DOMAIN m : m[i].k = key
    THEN [i \in DOMAIN m |-> IF m[i].k = key THEN [k |-> key, n |-> m[i].n + 1] ELSE m[i]]
    ELSE Append(m, [k |-> key, n |-> 1])

RECURSIVE BumpAll(_, _)
BumpAll(m, keys) == IF keys = <<>> THEN m ELSE BumpAll(Bump(m, Head(keys)), Tail(keys))

\* Object.entries / keys / values of such a counter: the keys that are array
\* indices (canonical decimal numerals) first, in ascending numeric order,
\* then the other keys in the order of their insertion.
Digits == {"0", "1", "2", "3", "4", "5", "6", "7", "8", "9"}
IsIndex(key) ==
    /\ key # <<>>
    /\ \A i \in DOMAIN key : key[i] \in Digits
    /\ Len(key) > 1 => key[1] # "0"
DigitValue(c) ==
    CASE c = "0" -> 0 [] c = "1" -> 1 [] c = "2" -> 2 [] c = "3" -> 3 [] c = "4" -> 4
      [] c = "5" -> 5 [] c = "6" -> 6 [] c = "7" -> 7 [] c = "8" -> 8 [] OTHER -> 9
RECURSIVE IndexValue(_)
IndexValue(key) ==
    IF key = <<>> THEN 0
    ELSE 10 * IndexValue(SubSeq(key, 1, Len(key) - 1)) + DigitValue(key[Len(key)])
RECURSIVE InsertByIndex(_, _)
InsertByIndex(sorted, x) ==
    IF sorted = <<>> THEN <<x>>
    ELSE IF IndexValue(Head(sorted).k) < IndexValue(x.k)
         THEN <<Head(sorted)>> \o InsertByIndex(Tail(sorted), x)
         ELSE <<x>> \o sorted
RECURSIVE IndexEntries(_)
IndexEntries(m) ==
    IF m = <<>> THEN <<>>
    ELSE IF IsIndex(Head(m).k) THEN InsertByIndex(IndexEntries(Tail(m)), Head(m))
         ELSE IndexEntries(Tail(m))
Entries(m) == IndexEntries(m) \o SelectSeq(m, LAMBDA x : ~IsIndex(x.k))

\* .sort((a,b)=>b[1]-a[1]): descending by count, stable.
RECURSIVE InsertByCount(_, _)
InsertByCount(sorted, x) ==
    IF sorted = <<>> THEN <<x>>
    ELSE IF Head(sorted).n >= x.n THEN <<Head(sorted)>> \o InsertByCount(Tail(sorted), x)
    ELSE <<x>> \o sorted
RECURSIVE SortByCount(_)
SortByCount(m) ==
    IF m = <<>> THEN <<>>
    ELSE InsertByCount(SortByCount(SubSeq(m, 1, Len(m) - 1)), m[Len(m)])

\* Object.entries(m).sort(...).slice(0,7)
Top(m) == LET q == SortByCount(Entries(m)) IN SubSeq(q, 1, IF Len(q) < TopCount THEN Len(q) ELSE TopCount)

\* x.split(...) throws: x is truthy and no string.
NoSplit(x) == Truthy(x) /\ x.t # "str"

\* ScoreOf without the default of line 23: e.score
ScoreOfNoDefault(e) == Get(e, "score")

\* e.score || 0
ScoreOf(e) == Or(Get(e, "score"), Num(0))

\* IsHigh with the comparison of line 24 written as s > 7.
IsHighStrict(sc) == sc.t = "num" /\ sc.n > HighMin

\* The comparisons of lines 24-26 (a NaN compares false).
IsHigh(sc) == sc.t = "num" /\ sc.n >= HighMin

\* IsMedium with the first comparison of line 25 written as s > 4.
IsMediumAbove(sc) == sc.t = "num" /\ sc.n > MediumMin /\ sc.n < HighMin

\* s >= 4 && s < 7, and s < 4
IsMedium(sc) == sc.t = "num" /\ sc.n >= MediumMin /\ sc.n < HighMin
IsLow(sc) == sc.t = "num" /\ sc.n < MediumMin

\* DateOf without the split of line 31: e.timestamp || ''
DateOfWhole(e) == Or(Get(e, "timestamp"), Str(<<>>)).s

\* (e.timestamp || '').split('T')[0]
DateOf(e) ==
    LET ts == Or(Get(e, "timestamp"), Str(<<>>)) IN BeforeFirst(ts.s, "T")

\* e.sender || e.email_from || ''
SenderOf(e) == Or(Or(Get(e, "sender"), Get(e, "email_from")), Str(<<>>))

\* (e.matched_rules || '').split(',').map(r => r.trim()).filter(Boolean)
RulesOf(e) ==
    LET parts == Split(Or(Get(e, "matched_rules"), Str(<<>>)).s, ",")
    IN  NonEmpty([i \in DOMAIN parts |-> Trim(parts[i])])

\* The forEach loops of lines 30-47, one record after the other.  A property
\* key is the string itself (the senders followed are strings).
RECURSIVE PerDay(_, _)
PerDay(m, q) ==
    IF q = <<>> THEN m
    ELSE PerDay(IF DateOf(Head(q)) = <<>> THEN m ELSE Bump(m, DateOf(Head(q))), Tail(q))
RECURSIVE BySender(_, _)
BySender(m, q) ==
    IF q = <<>> THEN m
    ELSE BySender(IF Truthy(SenderOf(Head(q))) THEN Bump(m, SenderOf(Head(q)).s) ELSE m,
                  Tail(q))
RECURSIVE ByRule(_, _)
ByRule(m, q) ==
    IF q = <<>> THEN m ELSE ByRule(BumpAll(m, RulesOf(Head(q))), Tail(q))

\* computeMetrics throws a TypeError: scanHistory has no map (line 23), an
\* entry is null or undefined (line 23), a timestamp (line 31) or a
\* matched_rules (line 45) is truthy and no string.
ComputeThrows(sh) ==
    \/ sh.t # "arr"
    \/ \E i \in DOMAIN sh.a :
        \/ NoProps(sh.a[i])
        \/ NoSplit(Get(sh.a[i], "timestamp"))
        \/ NoSplit(Get(sh.a[i], "matched_rules"))

\* function computeMetrics() (lines 22-53), of a scanHistory it does not throw on.
computeMetrics(sh) ==
    LET q == sh.a
        scores == [i \in DOMAIN q |-> ScoreOf(q[i])]
        high == CountIf(scores, IsHigh)
        total == Len(scores)
    IN  [ high |-> high,
          med |-> CountIf(scores, IsMedium),
          low |-> CountIf(scores, IsLow),
          perDay |-> PerDay(<<>>, q),
          bySender |-> BySender(<<>>, q),
          byRule |-> ByRule(<<>>, q),
          quarantine |-> CountIf(q, LAMBDA e : Truthy(Get(e, "quarantine"))),
          total |-> total,
          highPct |-> IF total # 0 THEN fmt(Real(high * 100, total)) ELSE 0 ]

\* e.ai_details?.zero_shot || e.score || 0, and the like (lines 186-188)
SubScore(e, name) ==
    Or(Or(GetOpt(Get(e, "ai_details"), name), Get(e, "score")), Num(0))

\* LastWindow without the slice of line 199.
LastWindowAll(q) == q

\* hy.slice(-5)
LastWindow(q) ==
    IF Len(q) <= TrendWindow THEN q ELSE SubSeq(q, Len(q) - TrendWindow + 1, Len(q))

\* Lines 198-204.
TrendOf(hy) ==
    LET sorted == LastWindow(hy)
        first == sorted[1]
        last == sorted[Len(sorted)]
    IN  IF Len(sorted) >= 2 /\ first.t = "num" /\ last.t = "num"
        THEN IF last.n - first.n > TrendStep THEN "Rising"
             ELSE IF last.n - first.n < -TrendStep THEN "Falling"
             ELSE "Stable"
        ELSE "Stable"

\* LabelOf with the branches of lines 207 and 210 in the other order.
LabelOfMediumFirst(overall) ==
    IF overall < MediumBelow THEN "Medium"
    ELSE IF overall < SafeBelow THEN "Safe"
    ELSE "High Risk"

\* Lines 207-216.
LabelOf(overall) ==
    IF overall < SafeBelow THEN "Safe"
    ELSE IF overall < MediumBelow THEN "Medium"
    ELSE "High Risk"

\* function updateAIMetrics() (lines 185-217): what it writes.  The averages
\* count hundredths.
updateAIMetrics(sh) ==
    LET q == sh.a
        zs == [i \in DOMAIN q |-> SubScore(q[i], "zero_shot")]
        tr == [i \in DOMAIN q |-> SubScore(q[i], "transformer")]
        hy == [i \in DOMAIN q |-> SubScore(q[i], "hybrid_score")]
        hyAvg == fmt(avg(hy))
        overall == RoundHundredths(hyAvg)
    IN  [ aiZSAvg |-> fmt(avg(zs)),
          aiTRAvg |-> fmt(avg(tr)),
          aiHYAvg |-> hyAvg,
          aiOverallScore |-> overall,
          aiTrend |-> TrendOf(hy),
          aiRiskLabel |-> LabelOf(overall) ]

\* ------------------------------------------------------------ the display
TextSlots == {"totalScans", "highRiskPct", "quarantineCount", "threatIndex",
              "aiZSAvg", "aiTRAvg", "aiHYAvg", "aiOverallScore", "aiTrend",
              "aiRiskLabel"}
ChartSlots == {"risk", "scans", "threats", "senders", "rules", "trend"}
Slots == TextSlots \cup ChartSlots

\* What a slot of the page shows: v, and src, the number of the body whose
\* collections v was computed from (history; 0 when v comes from no body).
Html == [src |-> 0, v |-> [t |-> "html"]]
Destroyed == [src |-> 0, v |-> [t |-> "destroyed"]]
Number(tag, n) == [src |-> tag, v |-> [t |-> "number", n |-> n]]
Text(tag, s) == [src |-> tag, v |-> [t |-> "text", s |-> s]]
Chart(tag, labels, values) ==
    [src |-> tag, v |-> [t |-> "chart", labels |-> labels, data |-> values]]

\* r => r[0] and r => r[1] over an array of entries.
Keys(m) == [i \in DOMAIN m |-> m[i].k]
Counts(m) == [i \in DOMAIN m |-> m[i].n]

\* Lines 121-124 throw: collective has no forEach, or an entry has no properties.
SendersThrow(co) == co.t # "arr" \/ \E i \in DOMAIN co.a : NoProps(co.a[i])

\* Lines 121-124.
RECURSIVE CollSenders(_, _)
CollSenders(m, q) ==
    IF q = <<>> THEN m
    ELSE CollSenders(IF Truthy(Get(Head(q), "sender"))
                     THEN Bump(m, Get(Head(q), "sender").s) ELSE m, Tail(q))

\* Line 160 throws: a timestamp is truthy and has no split.
TrendThrows(co) == \E i \in DOMAIN co.a : NoSplit(Get(co.a[i], "timestamp"))

\* IsRisky without the second comparison of line 161.
IsRiskyHighOnly(r) ==
    LET level == Get(r, "risk_level")
    IN  level.t = "str" /\ level.s = <<"High">>

\* r.risk_level === 'High' || r.risk_level === 'Suspicious'
IsRisky(r) ==
    LET level == Get(r, "risk_level")
    IN  level.t = "str" /\ level.s \in {<<"High">>, <<"Suspicious">>}

\* Lines 157-163.
RECURSIVE RiskOverTime(_, _)
RiskOverTime(m, q) ==
    IF q = <<>> THEN m
    ELSE LET r == Head(q)
         IN  RiskOverTime(IF Truthy(Get(r, "timestamp")) /\ IsRisky(r)
                          THEN Bump(m, BeforeFirst(Get(r, "timestamp").s, "T"))
                          ELSE m, Tail(q))

\* renderCharts with each chart destroyed only where it is built anew, instead
\* of all six at lines 60-61.
renderChartsLateDestroy(sh, co, old, tag) ==
    LET m == computeMetrics(sh)
        risky == Top(m.bySender)
        topRules == Top(m.byRule)
        d1 == [old EXCEPT !["risk"] = Chart(tag, <<"High", "Medium", "Low">>,
                                            <<m.high, m.med, m.low>>),
                          !["scans"] = Chart(tag, Keys(Entries(m.perDay)),
                                             Counts(Entries(m.perDay))),
                          !["threats"] = Chart(tag, Keys(risky), Counts(risky))]
        topSenders == Top(CollSenders(<<>>, co.a))
        d2 == [d1 EXCEPT !["senders"] = Chart(tag, Keys(topSenders), Counts(topSenders)),
                         !["rules"] = Chart(tag, Keys(topRules), Counts(topRules))]
        riskOverTime == Entries(RiskOverTime(<<>>, co.a))
        d3 == [d2 EXCEPT !["trend"] = Chart(tag, Keys(riskOverTime), Counts(riskOverTime))]
    IN  IF SendersThrow(co) THEN [shown |-> d1, done |-> FALSE]
        ELSE IF TrendThrows(co) THEN [shown |-> d2, done |-> FALSE]
        ELSE [shown |-> d3, done |-> TRUE]

\* function renderCharts() (lines 56-182) after a computeMetrics that did not
\* throw: all six charts are destroyed first (lines 60-61), then built one
\* after the other; a throw leaves the ones not yet built destroyed.
renderCharts(sh, co, old, tag) ==
    LET m == computeMetrics(sh)
        risky == Top(m.bySender)
        topRules == Top(m.byRule)
        d0 == [sl \in Slots |-> IF sl \in ChartSlots THEN Destroyed ELSE old[sl]]
        d1 == [d0 EXCEPT !["risk"] = Chart(tag, <<"High", "Medium", "Low">>,
                                           <<m.high, m.med, m.low>>),
                         !["scans"] = Chart(tag, Keys(Entries(m.perDay)),
                                             Counts(Entries(m.perDay))),
                         !["threats"] = Chart(tag, Keys(risky), Counts(risky))]
        topSenders == Top(CollSenders(<<>>, co.a))
        d2 == [d1 EXCEPT !["senders"] = Chart(tag, Keys(topSenders), Counts(topSenders)),
                         !["rules"] = Chart(tag, Keys(topRules), Counts(topRules))]
        riskOverTime == Entries(RiskOverTime(<<>>, co.a))
        d3 == [d2 EXCEPT !["trend"] = Chart(tag, Keys(riskOverTime), Counts(riskOverTime))]
    IN  IF SendersThrow(co) THEN [shown |-> d1, done |-> FALSE]
        ELSE IF TrendThrows(co) THEN [shown |-> d2, done |-> FALSE]
        ELSE [shown |-> d3, done |-> TRUE]

\* Lines 225-228: fmt(avgScore * 3.1), in hundredths.
ThreatIndex(sh) == fmt(Weighted(avg([i \in DOMAIN sh.a |-> ScoreOf(sh.a[i])])))

\* function updateDashboard() (lines 220-231) on the page showing `old`:
\* what the page shows afterwards, and whether it ran to its end.
updateDashboard(sh, co, old, tag) ==
    IF ComputeThrows(sh) THEN [shown |-> old, done |-> FALSE]
    ELSE LET m == computeMetrics(sh)
             ai == updateAIMetrics(sh)
             texts ==
                 [sl \in Slots |->
                    CASE sl = "totalScans" -> Number(tag, m.total)
                      [] sl = "highRiskPct" -> Number(tag, m.highPct)
                      [] sl = "quarantineCount" -> Number(tag, m.quarantine)
                      [] sl = "threatIndex" -> Number(tag, ThreatIndex(sh))
                      [] sl = "aiZSAvg" -> Number(tag, ai.aiZSAvg)
                      [] sl = "aiTRAvg" -> Number(tag, ai.aiTRAvg)
                      [] sl = "aiHYAvg" -> Number(tag, ai.aiHYAvg)
                      [] sl = "aiOverallScore" -> Number(tag, ai.aiOverallScore)
                      [] sl = "aiTrend" -> Text(tag, ai.aiTrend)
                      [] sl = "aiRiskLabel" -> Text(tag, ai.aiRiskLabel)
                      [] OTHER -> old[sl]]
         IN  renderCharts(sh, co, texts, tag)

\* =========================================================================
\* Dashboard.js
\* =========================================================================

\* The tab shows another page: nothing of Settings.js runs.
NoSettingsPage ==
    /\ user = [plan |-> ""]
    /\ loadingUser = FALSE
    /\ inboxLoading = FALSE
    /\ inboxStatus = [connected |-> FALSE]
    /\ imapSaving = FALSE
    /\ disconnecting = FALSE
    /\ calls = {}
    /\ connects = 0
    /\ disconnects = 0

\* The tab shows the React page: nothing of static/js/dashboard.js runs.
NoStaticPage ==
    /\ scanHistory = Arr(<<>>)
    /\ collective = Arr(<<>>)
    /\ shown = [sl \in Slots |-> Html]
    /\ lastRefreshed = 0
    /\ btnText = "Rescan now"
    /\ pendingTicks = 0
    /\ pendingRescans = 0

\* useState initial values (lines 14-16) and the mount effect (lines 36-38),
\* which issues the first fetchDashboardData: fetch number 1, of no poll loop.
InitReact ==
    /\ page = "react"
    /\ ev = "mount"
    /\ notice = "none"
    /\ data = 0
    /\ loading = TRUE
    /\ rescanLoading = FALSE
    /\ inflight = {[id |-> 1, loop |-> 0]}
    /\ nextId = 2
    /\ rs = [k \in Rescans |-> "unused"]
    /\ polls = [k \in Rescans |-> 0]
    /\ NoStaticPage
    /\ NoSettingsPage

\* PollsDone with the comparison of line 54 written as polls === 5.
PollsDoneExactly(n) == n = PollLimit

\* The condition of line 54, read when the awaited fetch has completed.
PollsDone(n) == n >= PollLimit

\* What the interval callback does after `await fetchDashboardData()`
\* (lines 54-57): clearInterval(interval); setRescanLoading(false).
AfterPoll(k) ==
    IF PollsDone(polls[k])
    THEN /\ rs' = [rs EXCEPT ![k] = IF @ = "polling" THEN "cleared" ELSE @]
         /\ rescanLoading' = FALSE
    ELSE UNCHANGED <<rs, rescanLoading>>

\* What fetchDashboardData stores when it has a body (line 28).
Stored(f, old) == f.id

\* fetchDashboardData from its await on (lines 24-33).  ok: the response was
\* OK and its body parsed; otherwise line 25 threw or fetch / json rejected.
\* Nothing is assigned between the two awaits of lines 24 and 26, so they are
\* one waiting period.  The finally of line 32 runs on both paths.  When the
\* call was made by a poll tick, the tick's continuation follows at once.
CompleteFetch(f, ok) ==
    /\ page = "react"
    /\ f \in inflight
    /\ inflight' = inflight \ {f}
    /\ data' = IF ok THEN Stored(f, data) ELSE data
    /\ notice' = IF ok THEN "log:Dashboard data received"
                       ELSE "error:Dashboard data fetch failed"
    /\ loading' = FALSE
    /\ ev' = IF ok THEN "fetchOk" ELSE "fetchFail"
    /\ IF f.loop = 0 THEN UNCHANGED <<rs, rescanLoading>> ELSE AfterPoll(f.loop)
    /\ UNCHANGED <<page, settingsVars, nextId, polls, staticVars>>

\* The body answered to call number n of fetchDashboardData, as far as the
\* render reads it: an odd call is answered a threat index of n + 0.5, a
\* behaviour risk of n and n records (the first without timestamp), an even
\* call a body without collective_stats and behavior.
ResponseOf(n) ==
    IF n % 2 = 1
    THEN Obj([collective_stats |->
                  Obj([threat_index |-> Num(2 * n + 1),
                       records |-> Arr([i \in 1..n |->
                           IF i = 1 THEN Obj([sender |-> Str(<<"a">>)])
                           ELSE Obj([timestamp |-> Str(<<"2", "-", "1", "T", "z">>)])])]),
              behavior |-> Obj([behavior_risk |-> Num(2 * n)])])
    ELSE Obj(<<>>)

\* The value of the state variable `data`.
DataValue(d) == IF d = 0 THEN Null ELSE ResponseOf(d)

\* a ?? b
Coalesce(a, b) == IF a.t \in {"undef", "null"} THEN b ELSE a

\* Math.round of a number (a half upwards); of undefined it is NaN.
MathRound(v) ==
    IF v.t = "num" THEN [nan |-> FALSE, n |-> (v.n + 1) \div 2] ELSE [nan |-> TRUE, n |-> 0]

\* threatIndex without the default of line 125.
threatIndexNoDefault(d) ==
    MathRound(GetOpt(GetOpt(d, "collective_stats"), "threat_index"))

\* Math.round(data?.collective_stats?.threat_index ?? 0) (line 125)
threatIndex(d) ==
    MathRound(Coalesce(GetOpt(GetOpt(d, "collective_stats"), "threat_index"), Num(0)))

\* Math.round(data?.behavior?.behavior_risk ?? 0) (line 126)
behaviorValue(d) ==
    MathRound(Coalesce(GetOpt(GetOpt(d, "behavior"), "behavior_risk"), Num(0)))

\* (data?.collective_stats?.records || []).map(...) (lines 127-135): each
\* record with its formatted_time, a date or "Unknown".
collectiveStats(d) ==
    LET records == Or(GetOpt(GetOpt(d, "collective_stats"), "records"), Arr(<<>>)).a
    IN  [i \in DOMAIN records |->
            [record |-> records[i],
             formatted_time |-> IF Truthy(Get(records[i], "timestamp"))
                                THEN "date" ELSE "Unknown"]]

\* What the component returns: the loading screen (lines 109-120), or the
\* dashboard with the values of lines 125-135.
Rendered ==
    IF loading /\ data = 0 THEN [screen |-> "loading"]
    ELSE [screen |-> "dashboard",
          threatIndex |-> threatIndex(DataValue(data)),
          behaviorValue |-> behaviorValue(DataValue(data)),
          collectiveStats |-> collectiveStats(DataValue(data))]

\* The Rescan button is rendered once the loading screen of line 109 is gone,
\* and is disabled while rescanLoading (line 154).
ButtonEnabled == ~(loading /\ data = 0) /\ ~rescanLoading

\* handleRescan up to its await (lines 44-46).
ClickRescan(k) ==
    /\ page = "react"
    /\ ButtonEnabled
    /\ rs[k] = "unused"
    /\ \A j \in Rescans : j < k => rs[j] # "unused"
    /\ rescanLoading' = TRUE
    /\ rs' = [rs EXCEPT ![k] = "posting"]
    /\ ev' = "click"
    /\ notice' = "none"
    /\ UNCHANGED <<page, settingsVars, data, loading, inflight, nextId, polls, staticVars>>

\* handleRescan after the POST was acknowledged (lines 47-58): polls = 0 and
\* the interval is set.
PostOk(k) ==
    /\ page = "react"
    /\ rs[k] = "posting"
    /\ rs' = [rs EXCEPT ![k] = "polling"]
    /\ polls' = [polls EXCEPT ![k] = 0]
    /\ notice' = "log:Rescan started"
    /\ ev' = "postOk"
    /\ UNCHANGED <<page, settingsVars, data, loading, rescanLoading, inflight, nextId, staticVars>>

\* RescanCatch without the setRescanLoading(false) of line 61.
RescanCatchNoReset(k) ==
    /\ rs' = [rs EXCEPT ![k] = "failed"]
    /\ UNCHANGED rescanLoading

\* What the catch of handleRescan leaves in rs[k] and rescanLoading.
RescanCatch(k) ==
    /\ rs' = [rs EXCEPT ![k] = "failed"]
    /\ rescanLoading' = FALSE

\* handleRescan when the POST rejected or was not OK (lines 47, 59-62).
PostFail(k) ==
    /\ page = "react"
    /\ rs[k] = "posting"
    /\ RescanCatch(k)
    /\ notice' = "error:Rescan error"
    /\ ev' = "postFail"
    /\ UNCHANGED <<page, settingsVars, data, loading, inflight, nextId, polls, staticVars>>

\* PollTick with fetchDashboardData beginning by setLoading(true).
PollTickSettingLoading(k) ==
    /\ page = "react"
    /\ rs[k] = "polling"
    /\ polls[k] < MaxPolls
    /\ Cardinality(inflight) < MaxInFlight
    /\ polls' = [polls EXCEPT ![k] = @ + 1]
    /\ inflight' = inflight \cup {[id |-> nextId, loop |-> k]}
    /\ nextId' = nextId + 1
    /\ loading' = TRUE
    /\ ev' = "pollTick"
    /\ notice' = "none"
    /\ UNCHANGED <<page, settingsVars, data, rescanLoading, rs, staticVars>>

\* One tick of the 2-second interval, up to its await (lines 52-53): the
\* callback is entered whether or not an earlier call is still waiting.
\* fetchDashboardData sets no state before its await.
PollTick(k) ==
    /\ page = "react"
    /\ rs[k] = "polling"
    /\ polls[k] < MaxPolls
    /\ Cardinality(inflight) < MaxInFlight
    /\ polls' = [polls EXCEPT ![k] = @ + 1]
    /\ inflight' = inflight \cup {[id |-> nextId, loop |-> k]}
    /\ nextId' = nextId + 1
    /\ ev' = "pollTick"
    /\ notice' = "none"
    /\ UNCHANGED <<page, settingsVars, data, loading, rescanLoading, rs, staticVars>>

FetchIds == 1..(1 + MaxRescans * MaxPolls)
Fetches == [id : FetchIds, loop : 0..MaxRescans]

NextReact ==
    \/ \E f \in Fetches, ok \in BOOLEAN : CompleteFetch(f, ok)
    \/ \E k \in Rescans : ClickRescan(k)
    \/ \E k \in Rescans : PostOk(k)
    \/ \E k \in Rescans : PostFail(k)
    \/ \E k \in Rescans : PollTick(k)

\* =========================================================================
\* static/js/dashboard.js: the page
\* =========================================================================

\* The tab shows the static page: nothing of Dashboard.js runs.
NoReactPage ==
    /\ data = 0
    /\ loading = FALSE
    /\ rescanLoading = FALSE
    /\ inflight = {}
    /\ nextId = 1
    /\ rs = [k \in Rescans |-> "unused"]
    /\ polls = [k \in Rescans |-> 0]

\* Records a backend may send.
RecA ==
    Obj([score |-> Num(16), sender |-> Str(<<"a">>),
         timestamp |-> Str(<<"d1", "T", "x">>),
         matched_rules |-> Str(<<"r1", ",", " ", "r2">>),
         quarantine |-> Bool(TRUE), risk_level |-> Str(<<"High">>),
         ai_details |-> Obj([zero_shot |-> Num(4), hybrid_score |-> Num(18)])])
RecB ==
    Obj([score |-> Num(4), sender |-> Str(<<"b">>),
         timestamp |-> Str(<<"d2", "T", "y">>), risk_level |-> Str(<<"Low">>)])
RecBare == Obj([sender |-> Str(<<"a">>)])
RecNumericTime == Obj([score |-> Num(2), timestamp |-> Num(2)])

\* The bodies /dashboard?json=1 answers with, and the data the server embeds
\* in #dataBlobs: two well-formed ones, one without collections, one with a
\* null entry in either collection, one with a timestamp that is a number.
Bodies ==
    << Obj([scan_history |-> Arr(<<RecA, RecB>>), collective_stats |-> Arr(<<RecA, RecBare>>)]),
       Obj([scan_history |-> Arr(<<RecB>>), collective_stats |-> Arr(<<RecB, RecA, RecA>>)]),
       Obj(<<>>),
       Obj([scan_history |-> Arr(<<RecA, Null>>), collective_stats |-> Arr(<<RecA>>)]),
       Obj([scan_history |-> Arr(<<RecBare>>), collective_stats |-> Arr(<<Null>>)]),
       Obj([scan_history |-> Arr(<<RecA, RecBare>>), collective_stats |-> Arr(<<RecNumericTime>>)]) >>

Stamps == 1..MaxStamps

\* JSON.parse(blob?.dataset?.scanHistory || '[]') (lines 4-5), of embedded data b.
Embedded(b, k) == IF k \in DOMAIN b.f THEN b.f[k] ELSE Arr(<<>>)

\* d.scan_history || [] (lines 254-255), of a response body d.
Received(d, k) == Or(Get(d, k), Arr(<<>>))

\* The script run on page load with the embedded data of body i: lines 3-5,
\* the handlers and the timer of lines 234-261, and the updateDashboard() of
\* line 263, whose error nothing catches.
PageLoaded(i) ==
    LET sh == Embedded(Bodies[i], "scan_history")
        co == Embedded(Bodies[i], "collective_stats")
        u == updateDashboard(sh, co, [sl \in Slots |-> Html], i)
    IN  /\ scanHistory' = sh
        /\ collective' = co
        /\ shown' = u.shown
        /\ notice' = IF u.done THEN "none" ELSE "uncaught:TypeError"
        /\ lastRefreshed' = 0
        /\ btnText' = "Rescan now"
        /\ pendingTicks' = 0
        /\ pendingRescans' = 0

InitStatic ==
    /\ page = "static"
    /\ ev = "load"
    /\ NoReactPage
    /\ NoSettingsPage
    /\ \E i \in DOMAIN Bodies :
        LET sh == Embedded(Bodies[i], "scan_history")
            co == Embedded(Bodies[i], "collective_stats")
            u == updateDashboard(sh, co, [sl \in Slots |-> Html], i)
        IN  /\ scanHistory = sh
            /\ collective = co
            /\ shown = u.shown
            /\ notice = IF u.done THEN "none" ELSE "uncaught:TypeError"
    /\ lastRefreshed = 0
    /\ btnText = "Rescan now"
    /\ pendingTicks = 0
    /\ pendingRescans = 0

\* One tick of the 180-second timer, up to its await (lines 249-251): the
\* callback is entered whether or not an earlier one is still waiting.
AutoTick ==
    /\ page = "static"
    /\ pendingTicks < MaxPending
    /\ pendingTicks' = pendingTicks + 1
    /\ ev' = "autoTick"
    /\ notice' = "none"
    /\ UNCHANGED <<page, settingsVars, reactVars, scanHistory, collective, shown, lastRefreshed,
                   btnText, pendingRescans>>

\* AutoNotOk with #lastRefreshed written before the test of line 252.
AutoNotOkStamped ==
    /\ page = "static"
    /\ pendingTicks > 0
    /\ pendingTicks' = pendingTicks - 1
    /\ lastRefreshed' = 1
    /\ ev' = "autoNotOk"
    /\ notice' = "none"
    /\ UNCHANGED <<page, settingsVars, reactVars, scanHistory, collective, shown,
                   btnText, pendingRescans>>

\* The response is not OK: the return of line 252.
AutoNotOk ==
    /\ page = "static"
    /\ pendingTicks > 0
    /\ pendingTicks' = pendingTicks - 1
    /\ ev' = "autoNotOk"
    /\ notice' = "none"
    /\ UNCHANGED <<page, settingsVars, reactVars, scanHistory, collective, shown, lastRefreshed,
                   btnText, pendingRescans>>

\* AutoReject with the collections assigned before the body is awaited.
AutoRejectAfterAssign ==
    /\ page = "static"
    /\ pendingTicks > 0
    /\ pendingTicks' = pendingTicks - 1
    /\ scanHistory' = Arr(<<>>)
    /\ collective' = Arr(<<>>)
    /\ ev' = "autoReject"
    /\ notice' = "warn:Auto-refresh failed"
    /\ UNCHANGED <<page, settingsVars, reactVars, shown, lastRefreshed, btnText, pendingRescans>>

\* fetch or r.json() rejected: the catch of lines 258-260.
AutoReject ==
    /\ page = "static"
    /\ pendingTicks > 0
    /\ pendingTicks' = pendingTicks - 1
    /\ ev' = "autoReject"
    /\ notice' = "warn:Auto-refresh failed"
    /\ UNCHANGED <<page, settingsVars, reactVars, scanHistory, collective, shown, lastRefreshed,
                   btnText, pendingRescans>>

\* AutoAnswer with the records of the body pushed onto the arrays held,
\* instead of the assignments of lines 254-255.
AutoAnswerAppending(d, tag, now) ==
    LET sh == Arr(scanHistory.a \o Received(d, "scan_history").a)
        co == Arr(collective.a \o Received(d, "collective_stats").a)
        u == updateDashboard(sh, co, shown, tag)
    IN  /\ page = "static"
        /\ pendingTicks > 0
        /\ pendingTicks' = pendingTicks - 1
        /\ scanHistory' = sh
        /\ collective' = co
        /\ shown' = u.shown
        /\ lastRefreshed' = IF u.done THEN now ELSE lastRefreshed
        /\ ev' = IF u.done THEN "autoDone" ELSE "autoThrow"
        /\ notice' = IF u.done THEN "none" ELSE "warn:Auto-refresh failed"
        /\ UNCHANGED <<page, settingsVars, reactVars, btnText, pendingRescans>>

\* The response is OK and its body d parsed (lines 254-257); an error of
\* updateDashboard goes to the catch of line 258.  tag: the number the body
\* is known by; now: the time.
AutoAnswer(d, tag, now) ==
    LET sh == Received(d, "scan_history")
        co == Received(d, "collective_stats")
        u == updateDashboard(sh, co, shown, tag)
    IN  /\ page = "static"
        /\ pendingTicks > 0
        /\ pendingTicks' = pendingTicks - 1
        /\ scanHistory' = sh
        /\ collective' = co
        /\ shown' = u.shown
        /\ lastRefreshed' = IF u.done THEN now ELSE lastRefreshed
        /\ ev' = IF u.done THEN "autoDone" ELSE "autoThrow"
        /\ notice' = IF u.done THEN "none" ELSE "warn:Auto-refresh failed"
        /\ UNCHANGED <<page, settingsVars, reactVars, btnText, pendingRescans>>

\* The response is body number i.
AutoBody(i, now) == AutoAnswer(Bodies[i], i, now)

\* The click handler of #refreshBtn up to its await (lines 235-237); the
\* button is never disabled.
ClickRefresh ==
    /\ page = "static"
    /\ pendingRescans < MaxPending
    /\ pendingRescans' = pendingRescans + 1
    /\ btnText' = "Scanning..."
    /\ ev' = "click"
    /\ notice' = "none"
    /\ UNCHANGED <<page, settingsVars, reactVars, scanHistory, collective, shown, lastRefreshed,
                   pendingTicks>>

\* What the catch and the finally of the click handler leave (lines 241-245).
RefreshCatch ==
    /\ notice' = "alert:Rescan failed"
    /\ btnText' = "Rescan now"
    /\ UNCHANGED <<scanHistory, collective, shown, lastRefreshed, pendingTicks>>

\* POST /rescan rejected, was not OK, or its body did not parse (lines 237-245).
RefreshFail ==
    /\ page = "static"
    /\ pendingRescans > 0
    /\ pendingRescans' = pendingRescans - 1
    /\ RefreshCatch
    /\ ev' = "postFail"
    /\ UNCHANGED <<page, settingsVars, reactVars>>

\* POST /rescan was acknowledged: location.reload() (line 240) loads the page
\* anew, with the data, number i, the server embeds now; what the old
\* document awaited is gone with it.
RefreshReload(i) ==
    /\ page = "static"
    /\ pendingRescans > 0
    /\ PageLoaded(i)
    /\ ev' = "load"
    /\ UNCHANGED <<page, settingsVars, reactVars>>

NextStatic ==
    \/ AutoTick
    \/ AutoNotOk
    \/ AutoReject
    \/ \E i \in DOMAIN Bodies, now \in Stamps : AutoBody(i, now)
    \/ ClickRefresh
    \/ RefreshFail
    \/ \E i \in DOMAIN Bodies : RefreshReload(i)

\* =========================================================================
\* static/js/dashboard.js: the aggregation of one page load
\* =========================================================================

SeqsUpTo(S, n) == UNION {[1..k -> S] : k \in 0..n}

\* Records that differ in their score: none, 0, 3.5, 4, 6.5, 7, 8.
ScoreRecs == {Obj(<<>>)} \cup {Obj([score |-> Num(n)]) : n \in {0, 7, 8, 13, 14, 16}}

\* Records that differ in their AI sub-scores: ai_details without sub-scores,
\* with a hybrid score of 0 or 3, with all three; each with a score of 8 and
\* with none.
AiDetails ==
    { Obj(<<>>),
      Obj([hybrid_score |-> Num(0)]),
      Obj([hybrid_score |-> Num(6)]),
      Obj([zero_shot |-> Num(0), transformer |-> Num(20), hybrid_score |-> Num(2)]) }
AiRecs ==
    {Obj([ai_details |-> d]) : d \in AiDetails}
        \cup {Obj([score |-> Num(16), ai_details |-> d]) : d \in AiDetails}

\* Records whose score is 1, 2, 2.5, 3 or 5.
TrendRecs == {Obj([score |-> Num(n)]) : n \in {2, 4, 5, 6, 10}}

\* Ten records: six of score 8, three of score 5, one of score 2.
TenRecords ==
    [i \in 1..10 |-> Obj([score |-> Num(IF i <= 6 THEN 16 ELSE IF i <= 9 THEN 10 ELSE 4)])]

\* The scan histories a page is loaded with.
Histories ==
    SeqsUpTo(ScoreRecs, MaxLen) \cup SeqsUpTo(AiRecs, MaxLen)
        \cup SeqsUpTo(TrendRecs, MaxTrendLen) \cup {TenRecords}

\* Lines 3-17 of the script have run on a page whose #dataBlobs holds a scan
\* history and no collective records; nothing is written yet.
InitAgg ==
    /\ page = "static"
    /\ ev = "script"
    /\ notice = "none"
    /\ NoReactPage
    /\ NoSettingsPage
    /\ scanHistory \in {Arr(h) : h \in Histories}
    /\ collective = Arr(<<>>)
    /\ shown = [sl \in Slots |-> Html]
    /\ lastRefreshed = 0
    /\ btnText = "Rescan now"
    /\ pendingTicks = 0
    /\ pendingRescans = 0

\* ScriptEnd with the trend window taken by scanHistory.splice(-5), which
\* removes the records from scanHistory.
ScriptEndSplicing ==
    LET u == updateDashboard(scanHistory, collective, shown, 1)
        n == Len(scanHistory.a)
    IN  /\ page = "static"
        /\ ev = "script"
        /\ shown' = u.shown
        /\ scanHistory' = Arr(SubSeq(scanHistory.a, 1, IF n > 5 THEN n - 5 ELSE 0))
        /\ ev' = "load"
        /\ notice' = IF u.done THEN "none" ELSE "uncaught:TypeError"
        /\ UNCHANGED <<page, settingsVars, reactVars, collective, lastRefreshed,
                       btnText, pendingTicks, pendingRescans>>

\* The rest of the script: updateDashboard() of line 263.  It assigns to
\* neither collection, and nothing it calls changes an array or a record of
\* them (map, filter, forEach, slice; sort on the array Object.entries made).
ScriptEnd ==
    LET u == updateDashboard(scanHistory, collective, shown, 1)
    IN  /\ page = "static"
        /\ ev = "script"
        /\ shown' = u.shown
        /\ ev' = "load"
        /\ notice' = IF u.done THEN "none" ELSE "uncaught:TypeError"
        /\ UNCHANGED <<page, settingsVars, reactVars, scanHistory, collective, lastRefreshed,
                       btnText, pendingTicks, pendingRescans>>

NextAgg == ScriptEnd

\* =========================================================================
\* static/js/dashboard.js: the rankings, over a page load and its refreshes
\* =========================================================================

\* Records that differ in their sender and in their matched rules:
\*   sender a, rules "2,1", score 8;
\*   sender b, rules " x, x,,", score 2.5, a timestamp of day d, risk High;
\*   an empty sender with email_from a, rule "x";
\*   a record without any field.
RankRecs ==
    { Obj([sender |-> Str(<<"a">>), matched_rules |-> Str(<<"2", ",", "1">>),
           score |-> Num(16)]),
      Obj([sender |-> Str(<<"b">>),
           matched_rules |-> Str(<<" ", "x", ",", " ", "x", ",", ",">>),
           score |-> Num(5), timestamp |-> Str(<<"d", "T", "z">>),
           risk_level |-> Str(<<"High">>)]),
      Obj([sender |-> Str(<<>>), email_from |-> Str(<<"a">>),
           matched_rules |-> Str(<<"x">>)]),
      Obj(<<>>) }

\* A record with eight rules, and one with the last of them.
EightRules ==
    Obj([matched_rules |-> Str(<<"a", ",", "b", ",", "c", ",", "d", ",", "e", ",",
                                 "f", ",", "g", ",", "h">>)])
LastRule == Obj([matched_rules |-> Str(<<"h">>)])

\* The pairs of scan history and collective records a page is loaded with.
RankPairs ==
    (SeqsUpTo(RankRecs, MaxLen) \X SeqsUpTo(RankRecs, MaxCollLen))
        \cup { <<(<<EightRules, LastRule>>), (<<>>)>>,
               <<(<<>>), (<<EightRules, LastRule>>)>> }

\* Lines 3-17 of the script have run; nothing is written yet.
InitRank ==
    /\ page = "static"
    /\ ev = "script"
    /\ notice = "none"
    /\ NoReactPage
    /\ NoSettingsPage
    /\ \E p \in RankPairs : scanHistory = Arr(p[1]) /\ collective = Arr(p[2])
    /\ shown = [sl \in Slots |-> Html]
    /\ lastRefreshed = 0
    /\ btnText = "Rescan now"
    /\ pendingTicks = 0
    /\ pendingRescans = 0

\* q.reverse() of a copy.
RECURSIVE Reverse(_)
Reverse(q) == IF q = <<>> THEN <<>> ELSE Append(Reverse(Tail(q)), Head(q))

\* A tick of the timer set at line 249, which fires once the script has ended;
\* the ticks are followed one at a time.
TickAfterLoad == ev # "script" /\ pendingTicks = 0 /\ AutoTick

\* The server holds the records the page holds and answers them in the same
\* order, or (rev) in the opposite one.
SameRecords(rev) ==
    Obj([scan_history |-> IF rev THEN Arr(Reverse(scanHistory.a)) ELSE scanHistory,
         collective_stats |-> IF rev THEN Arr(Reverse(collective.a)) ELSE collective])

AutoSameRecords(rev) == AutoAnswer(SameRecords(rev), 2, 1)

NextRank ==
    \/ ScriptEnd
    \/ TickAfterLoad
    \/ \E rev \in BOOLEAN : AutoSameRecords(rev)

\* =========================================================================
\* static/js/dashboard.js: the per-day counts of one page load
\* =========================================================================

\* Records that differ in their timestamp and risk level: day 2-1, High,
\* quarantined, score 8; day 1-2 without a time, Suspicious, score 4; day
\* 1-2, the level "high"; an empty timestamp, High, quarantined; day 2-1
\* without a level, score 1.
DayRecs ==
    { Obj([timestamp |-> Str(<<"2", "-", "1", "T", "z">>), risk_level |-> Str(<<"High">>),
           quarantine |-> Bool(TRUE), score |-> Num(16)]),
      Obj([timestamp |-> Str(<<"1", "-", "2">>), risk_level |-> Str(<<"Suspicious">>),
           quarantine |-> Bool(FALSE), score |-> Num(8)]),
      Obj([timestamp |-> Str(<<"1", "-", "2", "T", "y">>), risk_level |-> Str(<<"high">>)]),
      Obj([timestamp |-> Str(<<>>), risk_level |-> Str(<<"High">>),
           quarantine |-> Bool(TRUE)]),
      Obj([timestamp |-> Str(<<"2", "-", "1", "T", "q">>), score |-> Num(2)]) }

\* Lines 3-17 of the script have run; nothing is written yet.
InitDays ==
    /\ page = "static"
    /\ ev = "script"
    /\ notice = "none"
    /\ NoReactPage
    /\ NoSettingsPage
    /\ scanHistory \in {Arr(h) : h \in SeqsUpTo(DayRecs, MaxLen)}
    /\ collective \in {Arr(h) : h \in SeqsUpTo(DayRecs, MaxCollLen)}
    /\ shown = [sl \in Slots |-> Html]
    /\ lastRefreshed = 0
    /\ btnText = "Rescan now"
    /\ pendingTicks = 0
    /\ pendingRescans = 0

NextDays == ScriptEnd

\* =========================================================================
\* frontend/src/pages/Settings.js: the inbox section
\* =========================================================================

\* Largest number of clicks on Connect Inbox that are followed.
MaxConnects == 2

\* Largest number of clicks on Disconnect that are followed.
MaxDisconnects == 1

\* const PLAN_LIMITS (lines 45-51).
PLAN_LIMITS ==
    [free       |-> [allow_imap |-> FALSE, max_inboxes |-> 0],
     starter    |-> [allow_imap |-> TRUE,  max_inboxes |-> 1],
     pro        |-> [allow_imap |-> TRUE,  max_inboxes |-> 2],
     business   |-> [allow_imap |-> TRUE,  max_inboxes |-> 5],
     enterprise |-> [allow_imap |-> TRUE,  max_inboxes |-> 999]]

\* String.prototype.toLowerCase on the plan names a backend may send.
toLowerCase(s) ==
    CASE s = "Pro" -> "pro"
      [] s = "STARTER" -> "starter"
      [] OTHER -> s

\* The plan field of a body answered by /api/me: absent (""), a name of
\* PLAN_LIMITS in some letter case, or a name PLAN_LIMITS does not have.
PlanFields == {"", "free", "starter", "Pro", "STARTER", "gold"}

\* (json.plan || "free").toLowerCase() of line 28: "" is the falsy plan.
PlanOf(p) == toLowerCase(IF p = "" THEN "free" ELSE p)

\* const currentPlan = PLAN_LIMITS[user.plan] || PLAN_LIMITS.free (line 53).
\* The plan is "" until /api/me has answered, which is no key of PLAN_LIMITS.
currentPlan ==
    IF user.plan \in DOMAIN PLAN_LIMITS THEN PLAN_LIMITS[user.plan]
    ELSE PLAN_LIMITS.free

\* The Connect Inbox button (lines 274, 295, 310-312): rendered once the
\* inbox status is loaded and not connected; disabled while imapSaving or
\* when the plan does not allow IMAP.
ConnectButton ==
    [rendered |-> ~inboxLoading /\ ~inboxStatus.connected,
     disabled |-> imapSaving \/ ~currentPlan.allow_imap,
     text     |-> IF imapSaving THEN "Connecting..." ELSE "Connect Inbox"]

\* The Disconnect button (lines 274, 288-292); it has no disabled state.
DisconnectButton ==
    [rendered |-> ~inboxLoading /\ inboxStatus.connected]

\* useState initial values (lines 10-17, 71-89) and the two mount effects
\* (lines 38-40, 104-106), which call fetchUser and fetchInboxStatus.
InitSettings ==
    /\ page = "settings"
    /\ ev = "mount"
    /\ notice = "none"
    /\ user = [plan |-> ""]
    /\ loadingUser = TRUE
    /\ inboxLoading = TRUE
    /\ inboxStatus = [connected |-> FALSE]
    /\ imapSaving = FALSE
    /\ disconnecting = FALSE
    /\ calls = {[url |-> "me", by |-> "mount", n |-> 0],
                [url |-> "inbox-status", by |-> "mount", n |-> 0]}
    /\ connects = 0
    /\ disconnects = 0
    /\ NoReactPage
    /\ NoStaticPage

\* fetchUser after its await (lines 25-35): the body is stored with the plan
\* defaulted and lower-cased.
MeAnswered ==
    /\ page = "settings"
    /\ \E c \in calls :
        /\ c.url = "me"
        /\ calls' = calls \ {c}
        /\ \E p \in PlanFields :
            /\ user' = [plan |-> PlanOf(p)]
            /\ notice' = notice
    /\ loadingUser' = FALSE
    /\ ev' = "meOk"
    /\ UNCHANGED <<page, inboxLoading, inboxStatus, imapSaving, disconnecting,
                   connects, disconnects, reactVars, staticVars>>

\* fetchUser when fetch or res.json() throws (lines 32-35).
MeFailed ==
    /\ page = "settings"
    /\ \E c \in calls :
        /\ c.url = "me"
        /\ calls' = calls \ {c}
    /\ notice' = "Failed to load user:"
    /\ loadingUser' = FALSE
    /\ ev' = "meFailed"
    /\ UNCHANGED <<page, user, inboxLoading, inboxStatus, imapSaving,
                   disconnecting, connects, disconnects, reactVars, staticVars>>

\* What runs after `await fetchInboxStatus()` has returned, by its caller:
\* nothing for the mount effect, lines 140 and 145 for handleImapConnect,
\* the finally of line 160 for handleDisconnectInbox.
AfterInboxStatus(c, said) ==
    /\ notice' = IF c.by = "connect" THEN "IMAP inbox connected!" ELSE said
    /\ imapSaving' = IF c.by = "connect" THEN FALSE ELSE imapSaving
    /\ disconnecting' = IF c.by = "disconnect" THEN FALSE ELSE disconnecting

\* fetchInboxStatus after its await (lines 96-97, 101): the body is stored
\* as answered; then its caller goes on.
InboxStatusAnswered ==
    /\ page = "settings"
    /\ \E c \in calls :
        /\ c.url = "inbox-status"
        /\ calls' = calls \ {c}
        /\ \E b \in BOOLEAN : inboxStatus' = [connected |-> b]
        /\ AfterInboxStatus(c, notice)
    /\ inboxLoading' = FALSE
    /\ ev' = "inboxOk"
    /\ UNCHANGED <<page, user, loadingUser, connects, disconnects,
                   reactVars, staticVars>>

\* fetchInboxStatus when fetch or res.json() throws (lines 98-101): the
\* exception is caught inside, so the caller goes on as after an answer.
InboxStatusFailed ==
    /\ page = "settings"
    /\ \E c \in calls :
        /\ c.url = "inbox-status"
        /\ calls' = calls \ {c}
        /\ AfterInboxStatus(c, "Inbox load failed")
    /\ inboxLoading' = FALSE
    /\ ev' = "inboxFailed"
    /\ UNCHANGED <<page, user, loadingUser, inboxStatus, connects, disconnects,
                   reactVars, staticVars>>

\* A click on Connect Inbox: handleImapConnect up to its first await (lines
\* 111-131). A disabled button dispatches no click, so the handler runs only
\* when the button of the same render is enabled; its own test of line 112
\* then finds the plan allowed.
ImapConnect ==
    /\ page = "settings"
    /\ ConnectButton.rendered /\ ~ConnectButton.disabled
    /\ connects < MaxConnects
    /\ connects' = connects + 1
    /\ IF ~currentPlan.allow_imap
       THEN /\ notice' = "Your plan does NOT include IMAP inbox support."
            /\ UNCHANGED <<imapSaving, calls>>
       ELSE /\ imapSaving' = TRUE
            /\ calls' = calls \cup {[url |-> "link-imap", by |-> "connect",
                                     n |-> connects + 1]}
            /\ notice' = notice
    /\ ev' = "connect"
    /\ UNCHANGED <<page, user, loadingUser, inboxLoading, inboxStatus,
                   disconnecting, disconnects, reactVars, staticVars>>

\* handleImapConnect after `await fetch` and `await res.json()` when res.ok
\* (lines 133-139): fetchInboxStatus is called and awaited.
LinkOk ==
    /\ page = "settings"
    /\ \E c \in calls :
        /\ c.url = "link-imap"
        /\ calls' = (calls \ {c}) \cup
                    {[url |-> "inbox-status", by |-> "connect", n |-> c.n]}
    /\ ev' = "linkOk"
    /\ UNCHANGED <<page, notice, user, loadingUser, inboxLoading, inboxStatus,
                   imapSaving, disconnecting, connects, disconnects,
                   reactVars, staticVars>>

\* handleImapConnect when the response is not OK and its body is an object
\* (lines 134-137): the alert, then `return` inside the try block, which has
\* no finally: line 145 is not reached.
LinkNotOk ==
    /\ page = "settings"
    /\ \E c \in calls :
        /\ c.url = "link-imap"
        /\ calls' = calls \ {c}
    /\ \E said \in {"json.error", "IMAP connection failed."} : notice' = said
    /\ ev' = "linkNotOk"
    /\ UNCHANGED <<page, user, loadingUser, inboxLoading, inboxStatus,
                   imapSaving, disconnecting, connects, disconnects,
                   reactVars, staticVars>>

\* handleImapConnect when fetch rejects, res.json() throws, or the body of a
\* response that is not OK is null so that json.error throws (lines 141-145).
LinkThrew ==
    /\ page = "settings"
    /\ \E c \in calls :
        /\ c.url = "link-imap"
        /\ calls' = calls \ {c}
    /\ notice' = "Error connecting IMAP inbox."
    /\ imapSaving' = FALSE
    /\ ev' = "linkThrew"
    /\ UNCHANGED <<page, user, loadingUser, inboxLoading, inboxStatus,
                   disconnecting, connects, disconnects, reactVars, staticVars>>

\* A click on Disconnect: handleDisconnectInbox up to its first await
\* (lines 151-156).
DisconnectInbox ==
    /\ page = "settings"
    /\ DisconnectButton.rendered
    /\ disconnects < MaxDisconnects
    /\ disconnects' = disconnects + 1
    /\ disconnecting' = TRUE
    /\ calls' = calls \cup {[url |-> "disconnect-inbox", by |-> "disconnect",
                             n |-> disconnects + 1]}
    /\ ev' = "disconnect"
    /\ UNCHANGED <<page, notice, user, loadingUser, inboxLoading, inboxStatus,
                   imapSaving, connects, reactVars, staticVars>>

\* handleDisconnectInbox after `await fetch` whatever the status (line 158):
\* fetchInboxStatus is called and awaited.
DisconnectAnswered ==
    /\ page = "settings"
    /\ \E c \in calls :
        /\ c.url = "disconnect-inbox"
        /\ calls' = (calls \ {c}) \cup
                    {[url |-> "inbox-status", by |-> "disconnect", n |-> c.n]}
    /\ ev' = "disconnectOk"
    /\ UNCHANGED <<page, notice, user, loadingUser, inboxLoading, inboxStatus,
                   imapSaving, disconnecting, connects, disconnects,
                   reactVars, staticVars>>

\* handleDisconnectInbox when fetch rejects (lines 159-161): the finally
\* runs and the rejection leaves the handler uncaught.
DisconnectThrew ==
    /\ page = "settings"
    /\ \E c \in calls :
        /\ c.url = "disconnect-inbox"
        /\ calls' = calls \ {c}
    /\ disconnecting' = FALSE
    /\ notice' = "Uncaught (in promise)"
    /\ ev' = "disconnectThrew"
    /\ UNCHANGED <<page, user, loadingUser, inboxLoading, inboxStatus,
                   imapSaving, connects, disconnects, reactVars, staticVars>>

NextSettings ==
    \/ MeAnswered
    \/ MeFailed
    \/ InboxStatusAnswered
    \/ InboxStatusFailed
    \/ ImapConnect
    \/ LinkOk
    \/ LinkNotOk
    \/ LinkThrew
    \/ DisconnectInbox
    \/ DisconnectAnswered
    \/ DisconnectThrew

\* The Settings page from its mount on.
SpecSettings == InitSettings /\ [][NextSettings]_vars

\* =========================================================================
\* Specifications
\* =========================================================================
Init == InitReact \/ InitStatic
Next == NextReact \/ NextStatic
Spec == Init /\ [][Next]_vars

\* One page load of the static page, for every scan history of Histories.
SpecAgg == InitAgg /\ [][NextAgg]_vars

\* One page load of the static page and the auto-refreshes after it, the
\* server holding the same records throughout.
SpecRank == InitRank /\ [][NextRank]_vars

\* One page load of the static page, for records of several days.
SpecDays == InitDays /\ [][NextDays]_vars

\* The React page when its timers fire and every request is answered: an
\* interval that is set ticks, a POST is answered, and the oldest call of
\* fetchDashboardData still awaited is answered (so each one is, in any order).
FairReact ==
    /\ InitReact
    /\ [][NextReact]_vars
    /\ \A k \in Rescans : WF_vars(PollTick(k))
    /\ \A k \in Rescans : WF_vars(PostOk(k) \/ PostFail(k))
    /\ WF_vars(\E f \in Fetches, ok \in BOOLEAN :
                  (\A g \in inflight : f.id <= g.id) /\ CompleteFetch(f, ok))

\* =========================================================================
\* Claims
\* =========================================================================

\* C1: at every moment at most one refresh fetch is in flight, on either page.
AtMostOneRefreshInFlight == Cardinality(inflight) <= 1 /\ pendingTicks <= 1

\* C2: a poll loop of handleRescan issues 5 calls of fetchDashboardData and
\* never a 6th (polls[k] counts the calls loop k has issued), and its
\* interval is cleared after the 5th.
ExactlyFivePolls ==
    \A k \in Rescans : polls[k] <= 5 /\ (rs[k] = "cleared" => polls[k] = 5)

\* C3: when the timers fire and every request is answered, a poll loop that
\* was started ends: its interval is cleared and rescanLoading is false,
\* whatever the polls answered; and a poll that fails neither changes the
\* count of attempts nor stops the loop before the 5th attempt nor restarts it.
PollLoopEnds ==
    /\ \A k \in Rescans :
        (rs[k] = "polling") ~> (rs[k] = "cleared" /\ ~rescanLoading)
    /\ [][ev' = "fetchFail" =>
            /\ polls' = polls
            /\ \A k \in Rescans :
                rs'[k] # rs[k] => rs[k] = "polling" /\ rs'[k] = "cleared" /\ polls[k] >= 5
         ]_vars

\* C3, its case: a loop has ended and rescanLoading is false although no
\* fetch, the first one included, ever succeeded.
PollLoopEndedAllFailed ==
    \E k \in Rescans : rs[k] = "cleared" /\ ~rescanLoading /\ ~loading /\ data = 0

\* C4: a refresh fetch that fails (it rejects, is not OK, or its body does not
\* parse) leaves the held data as they were - data on the React page;
\* scanHistory, collective and everything shown on the static page - and
\* leaves nothing latched: the request is no longer awaited, the React page
\* is past its loading screen, the static page can start the next tick.
FailedFetchKeepsData ==
    [][ev' \in {"fetchFail", "autoNotOk", "autoReject"} =>
            /\ data' = data
            /\ scanHistory' = scanHistory
            /\ collective' = collective
            /\ shown' = shown
            /\ lastRefreshed' = lastRefreshed
            /\ page = "react" =>
                 Cardinality(inflight') = Cardinality(inflight) - 1 /\ ~loading'
            /\ page = "static" =>
                 pendingTicks' = pendingTicks - 1 /\ pendingTicks' < MaxPending
      ]_vars

\* C4, its case: a refresh of the static page failed after an earlier one had
\* succeeded, and everything shown still comes from the earlier one.
FailedAfterGoodRefresh ==
    /\ ev \in {"autoNotOk", "autoReject"}
    /\ lastRefreshed # 0
    /\ \A sl \in Slots : shown[sl].src # 0

\* C5: a rescan request that fails is reported (an alert on the static page, a
\* console error on the React page), issues no poll fetch then or later,
\* leaves the held data as they were, leaves rescanLoading false, and leaves
\* the auto-refresh timer of the static page firing.
FailedRescanIsHarmless ==
    /\ [][ev' = "postFail" =>
            /\ notice' = IF page = "static" THEN "alert:Rescan failed"
                                           ELSE "error:Rescan error"
            /\ inflight' = inflight /\ nextId' = nextId /\ polls' = polls
            /\ data' = data
            /\ scanHistory' = scanHistory /\ collective' = collective /\ shown' = shown
            /\ ~rescanLoading'
            /\ pendingTicks' = pendingTicks
         ]_vars
    /\ [](\A k \in Rescans :
            rs[k] = "failed" => polls[k] = 0 /\ \A f \in inflight : f.loop # k)
    /\ [](page = "static" /\ pendingTicks < MaxPending => ENABLED AutoTick)

\* C5, its case: on the React page a POST /rescan has just failed.
RescanJustFailed ==
    page = "react" /\ ev = "postFail" /\ ~rescanLoading /\ notice = "error:Rescan error"

\* C6: whenever the page can be looked at, everything it shows that was
\* computed from collections was computed from one and the same pair of
\* them, also after an updateDashboard that an error stopped part-way.
ShownFromOnePair ==
    \A a, b \in Slots :
        shown[a].src # 0 /\ shown[b].src # 0 => shown[a].src = shown[b].src

\* C6, its case: an auto-refresh whose updateDashboard threw after the figures
\* and the first charts were written, on a page that showed an earlier pair.
StoppedPartWay ==
    /\ ev = "autoThrow"
    /\ lastRefreshed # 0
    /\ shown["totalScans"].src # 0
    /\ shown["risk"].src # 0
    /\ shown["trend"] = Destroyed

\* The score of a record as the claims read it: an absent score is 0.
ClaimScore(e) == IF "score" \in DOMAIN e.f THEN e.f["score"].n ELSE 0

\* C7: the risk chart of a loaded page counts a record as High iff its score
\* is at least 7, as Medium iff it is at least 4 and below 7, as Low iff it
\* is below 4 (scores in halves: 14 and 8); a record without a score is Low.
BucketsByScore ==
    ev = "load" =>
        LET q == scanHistory.a
        IN  shown["risk"].v.data =
                << Cardinality({i \in DOMAIN q : ClaimScore(q[i]) >= 14}),
                   Cardinality({i \in DOMAIN q : ClaimScore(q[i]) >= 8
                                                  /\ ClaimScore(q[i]) < 14}),
                   Cardinality({i \in DOMAIN q : ClaimScore(q[i]) < 8}) >>

\* C7, its case: scores of exactly 7, exactly 4 and none: one High, one
\* Medium, one Low.
BoundaryScoresBucketed ==
    /\ ev = "load"
    /\ scanHistory = Arr(<<Obj([score |-> Num(14)]), Obj([score |-> Num(8)]), Obj(<<>>)>>)
    /\ shown["risk"].v.data = <<1, 1, 1>>

\* C8: a page loaded with no scan history and no collective records shows
\* 0 scans, 0 % high risk, threat index 0, AI averages 0, the label Safe and
\* the trend Stable, and no error is raised.
EmptyInputsShowZero ==
    ev = "load" /\ scanHistory = Arr(<<>>) /\ collective = Arr(<<>>) =>
        /\ notice = "none"
        /\ \A sl \in {"totalScans", "highRiskPct", "threatIndex", "quarantineCount",
                      "aiZSAvg", "aiTRAvg", "aiHYAvg", "aiOverallScore"} :
              shown[sl].v = [t |-> "number", n |-> 0]
        /\ shown["aiRiskLabel"].v = [t |-> "text", s |-> "Safe"]
        /\ shown["aiTrend"].v = [t |-> "text", s |-> "Stable"]

\* C8, its case: the page was loaded with empty collections.
EmptyPageLoaded ==
    /\ ev = "load" /\ scanHistory = Arr(<<>>) /\ collective = Arr(<<>>)
    /\ shown["totalScans"].src # 0

\* The hybrid-score series of a scan history, as updateAIMetrics reads it.
HybridSeries(q) == [i \in DOMAIN q |-> SubScore(q[i], "hybrid_score").n]

\* C9: with delta the last value of the hybrid series minus the one 4 places
\* before it (minus the first one when the series is shorter), the trend is
\* Rising iff delta > 1, Falling iff delta < -1, else Stable; fewer than 2
\* values give Stable (values in halves: 2 is 1).
TrendFromLastFive ==
    ev = "load" =>
        LET hy == HybridSeries(scanHistory.a)
            n == Len(hy)
            from == IF n > 5 THEN n - 4 ELSE 1
            delta == hy[n] - hy[from]
        IN  shown["aiTrend"].v.s =
                IF n < 2 THEN "Stable"
                ELSE IF delta > 2 THEN "Rising"
                ELSE IF delta < -2 THEN "Falling"
                ELSE "Stable"

\* C9, its case: the scores 5, 1, 1, 1, 1, 3 give Rising, as 1, 1, 1, 1, 3
\* do, although the whole series falls.
OlderValueIgnored ==
    /\ ev = "load"
    /\ HybridSeries(scanHistory.a) = <<10, 2, 2, 2, 2, 6>>
    /\ shown["aiTrend"].v.s = "Rising"

\* A sub-score of a record as C10 states it: the one in ai_details when it is
\* there, else the score, else 0.
ClaimSubScore(e, name) ==
    IF "ai_details" \in DOMAIN e.f /\ name \in DOMAIN e.f["ai_details"].f
    THEN e.f["ai_details"].f[name].n
    ELSE ClaimScore(e)

\* C10: the hybrid average shown is the average of the records' hybrid
\* sub-scores, the score standing in only for a sub-score that is missing: a
\* hybrid score of 0 counts as 0.
PresentSubScoreUsed ==
    ev = "load" /\ scanHistory.a # <<>> =>
        LET q == scanHistory.a
        IN  shown["aiHYAvg"].v.n =
                fmt(Real(SumSeq([i \in DOMAIN q |-> ClaimSubScore(q[i], "hybrid_score")]),
                         2 * Len(q)))

\* The elements of a sequence.
Range(q) == {q[i] : i \in DOMAIN q}

\* C11: the rules chart ranks rule tokens of the collective records only: every
\* rule it shows is a rule of some collective record, whatever the local scan
\* history holds.
TopRulesFromCollective ==
    ev \in {"load", "autoDone"} =>
        \A r \in Range(shown["rules"].v.labels) :
            \E j \in DOMAIN collective.a : r \in Range(RulesOf(collective.a[j]))

\* C12: a refresh that brings the same records in another order, so that
\* every sender and every rule keeps its count while tied ones are first seen
\* in another order, leaves the three ranked lists in the order they had.
RankingKeptAcrossRefresh ==
    [][ev' = "autoDone" =>
          \A sl \in {"threats", "senders", "rules"} :
              shown'[sl].v.labels = shown[sl].v.labels
      ]_vars

\* The identities one pass over the records meets, in order: the non-empty
\* senders, and the rule tokens.
RECURSIVE SendersSeen(_)
SendersSeen(q) ==
    IF q = <<>> THEN <<>>
    ELSE (IF Truthy(Get(Head(q), "sender")) THEN <<Get(Head(q), "sender").s>> ELSE <<>>)
            \o SendersSeen(Tail(q))
RECURSIVE RulesSeen(_)
RulesSeen(q) == IF q = <<>> THEN <<>> ELSE RulesOf(Head(q)) \o RulesSeen(Tail(q))

TimesSeen(ids, x) == Cardinality({i \in DOMAIN ids : ids[i] = x})
FirstSeen(ids, x) == CHOOSE i \in DOMAIN ids : ids[i] = x /\ \A j \in 1..(i - 1) : ids[j] # x

\* A chart is the ranking of the identities ids as C13 describes it.
IsRanking(chart, ids) ==
    LET L == chart.labels
        D == chart.data
        distinct == Range(ids)
    IN  /\ Len(L) = IF Cardinality(distinct) < 7 THEN Cardinality(distinct) ELSE 7
        /\ \A i \in DOMAIN L : L[i] \in distinct /\ D[i] = TimesSeen(ids, L[i])
        /\ \A i, j \in DOMAIN L :
              i < j => \/ D[i] > D[j]
                       \/ D[i] = D[j] /\ FirstSeen(ids, L[i]) < FirstSeen(ids, L[j])
        /\ \A x \in distinct \ Range(L) : \A i \in DOMAIN L : TimesSeen(ids, x) <= D[i]

\* C13: each ranked list is ordered by count descending, equal counts in the
\* order first seen in the pass over its input, holds min(7, distinct
\* identities) entries, leaves out no identity with a larger count than one it
\* includes, and ranks no record whose sender is empty or missing.  Each list
\* is compared with the pass over the collection the code reads for it.
RankedByCountThenFirstSeen ==
    ev \in {"load", "autoDone"} =>
        /\ IsRanking(shown["threats"].v, SendersSeen(scanHistory.a))
        /\ IsRanking(shown["senders"].v, SendersSeen(collective.a))
        /\ IsRanking(shown["rules"].v, RulesSeen(scanHistory.a))

Bare(e) == DOMAIN e.f \cap {"timestamp", "score"} = {}

\* C15: a scan history holding records with neither timestamp nor score
\* raises no error; such a record adds no day and no count to the scans
\* chart (the counts add up to the number of records that have a timestamp),
\* counts 0 in the mean behind the threat index, and counts in totalScans.
BareRecordCountsAsZero ==
    LET q == scanHistory.a
    IN  ev \in {"load", "autoDone"} /\ (\E i \in DOMAIN q : Bare(q[i])) =>
            /\ notice = "none"
            /\ shown["totalScans"].v.n = Len(q)
            /\ SumSeq(shown["scans"].v.data) =
                   Cardinality({i \in DOMAIN q : "timestamp" \in DOMAIN q[i].f})
            /\ <<>> \notin Range(shown["scans"].v.labels)
            /\ shown["threatIndex"].v.n =
                   fmt(Real(31 * SumSeq([i \in DOMAIN q |-> ClaimScore(q[i])]),
                            20 * Len(q)))

\* C15, its case: a record without any field before one of score 8: two
\* scans, no day, and a threat index of 4 * 3.1 = 12.4.
BareRecordLoaded ==
    /\ ev = "load"
    /\ Len(scanHistory.a) = 2
    /\ scanHistory.a[1] = Obj(<<>>)
    /\ shown["totalScans"].v.n = 2
    /\ shown["scans"].v.labels = <<>>
    /\ shown["threatIndex"].v.n = 1240

\* C16: no updateDashboard is stopped by an error, whatever the records hold:
\* neither the one of the page load (an uncaught TypeError) nor the one of an
\* auto-refresh (caught at line 258 after part of the page was written).
NeverAbortsOnMalformed ==
    notice # "uncaught:TypeError" /\ ev # "autoThrow"

\* C17: a record's matched rules count as a set of trimmed, non-empty tokens:
\* the count the rules chart shows for a rule is the number of records (of
\* the collection the code reads for it) whose string holds the rule, however
\* often it holds it; no shown rule is empty or carries outer blanks.
RuleCountedOncePerRecord ==
    LET q == scanHistory.a
        L == shown["rules"].v.labels
    IN  ev \in {"load", "autoDone"} =>
            \A i \in DOMAIN L :
                /\ L[i] # <<>> /\ Trim(L[i]) = L[i]
                /\ shown["rules"].v.data[i] =
                       Cardinality({j \in DOMAIN q : L[i] \in Range(RulesOf(q[j]))})

\* Hundredths of num/den (den > 0) rounded to the nearest, a half upwards.
Round2(num, den) == (200 * num + den) \div (2 * den)

\* C18: the high-risk percentage shown is 100 * (records of score >= 7) /
\* (records) rounded to 2 decimals, 0 without records, and between 0 and 100
\* (in hundredths: 0 and 10000).
HighRiskPercentOfTotal ==
    ev = "load" =>
        LET q == scanHistory.a
            high == Cardinality({i \in DOMAIN q : ClaimScore(q[i]) >= 14})
            pct == shown["highRiskPct"].v.n
        IN  /\ pct = IF Len(q) = 0 THEN 0 ELSE Round2(100 * high, Len(q))
            /\ pct >= 0 /\ pct <= 10000

\* C18, its case: of ten records with six of score 8, three of score 5 and
\* one of score 2, 60 percent are high risk.
SixOfTenHigh ==
    /\ ev = "load"
    /\ scanHistory = Arr(TenRecords)
    /\ shown["highRiskPct"].v.n = 6000

\* C19: the overall AI score shown is the hybrid average shown (2 decimals)
\* rounded to the nearest integer, a half upwards, and the one label shown is
\* Safe iff it is below 4, Medium iff it is at least 4 and below 7, High Risk
\* iff it is at least 7.
OverallAndLabel ==
    ev = "load" =>
        LET hyAvg == shown["aiHYAvg"].v.n
            overall == shown["aiOverallScore"].v.n
            label == shown["aiRiskLabel"].v.s
        IN  /\ 100 * overall <= hyAvg + 50 /\ hyAvg + 50 < 100 * (overall + 1)
            /\ label \in {"Safe", "Medium", "High Risk"}
            /\ label = "Safe" <=> overall < 4
            /\ label = "Medium" <=> (overall >= 4 /\ overall < 7)
            /\ label = "High Risk" <=> overall >= 7

\* C19, its case: a hybrid average of 3.5 gives the overall score 4 and the
\* label Medium; one of 6.5 gives 7 and High Risk.
HalfRoundsUpToNextLabel ==
    /\ ev = "load"
    /\ \/ /\ shown["aiHYAvg"].v.n = 350
          /\ shown["aiOverallScore"].v.n = 4
          /\ shown["aiRiskLabel"].v.s = "Medium"
       \/ /\ shown["aiHYAvg"].v.n = 650
          /\ shown["aiOverallScore"].v.n = 7
          /\ shown["aiRiskLabel"].v.s = "High Risk"

\* C20: the threat index shown is the mean of the local scores (an absent
\* score counts 0) times 3.1, rounded to 2 decimals, and 0 without local
\* records, whatever the collective records are.  Scores count halves, so
\* 3.1 * mean = 31 * sum / (20 * length).
ThreatIndexFromLocalMean ==
    ev \in {"load", "autoDone"} =>
        LET q == scanHistory.a
            sum == SumSeq([i \in DOMAIN q |-> ClaimScore(q[i])])
        IN  shown["threatIndex"].v.n =
                IF Len(q) = 0 THEN 0 ELSE Round2(31 * sum, 20 * Len(q))

\* C20, its case: one local record of score 8 beside collective records with
\* scores of their own: 8 * 3.1 = 24.8.
ThreatIndexBesideCollective ==
    /\ ev = "load"
    /\ Len(scanHistory.a) = 1
    /\ Len(collective.a) = 2
    /\ \A j \in DOMAIN collective.a : ClaimScore(collective.a[j]) = 5
    /\ shown["threatIndex"].v.n = 2480

\* The text of a string up to its first 'T'.
RECURSIVE UpToT(_)
UpToT(s) == IF s = <<>> \/ Head(s) = "T" THEN <<>> ELSE <<Head(s)>> \o UpToT(Tail(s))

\* The dates one pass over the records meets, in order: of every record with
\* a non-empty timestamp.
RECURSIVE DatesSeen(_)
DatesSeen(q) ==
    IF q = <<>> THEN <<>>
    ELSE (IF "timestamp" \in DOMAIN Head(q).f /\ Head(q).f["timestamp"].s # <<>>
          THEN <<UpToT(Head(q).f["timestamp"].s)>> ELSE <<>>)
            \o DatesSeen(Tail(q))

\* A chart holds one bucket for every date of `dates`, in the order in which
\* the dates first occur, each with the number of its occurrences.
IsDayCount(chart, dates) ==
    LET L == chart.labels
        D == chart.data
    IN  /\ Range(L) = Range(dates)
        /\ \A i \in DOMAIN L : D[i] = TimesSeen(dates, L[i])
        /\ \A i, j \in DOMAIN L : i < j => FirstSeen(dates, L[i]) < FirstSeen(dates, L[j])

\* C21: the scans chart counts the local records only: one bucket per date
\* portion of the local timestamps, every record with a timestamp adding 1
\* to its date's bucket and the others nothing, the buckets in the order in
\* which the dates were first seen (dates written with dashes).
ScansPerDayFromLocal ==
    ev = "load" =>
        IsDayCount(shown["scans"].v, DatesSeen(scanHistory.a))

\* C21, its case: local records of day 2-1 and then of day 1-2 beside
\* collective records: the later day comes first, as it was seen first.
LaterDaySeenFirst ==
    /\ ev = "load"
    /\ shown["scans"].v.labels = << <<"2", "-", "1">>, <<"1", "-", "2">> >>
    /\ shown["scans"].v.data = <<1, 2>>
    /\ Len(collective.a) = 2

\* C22: the trend chart counts the collective records only: one bucket per
\* date of the collective records that have a timestamp and whose risk_level
\* is exactly High or Suspicious, each such record adding 1; other records
\* add nothing and make no bucket.
HighRiskTrendFromCollective ==
    ev = "load" =>
        IsDayCount(shown["trend"].v,
                   DatesSeen(SelectSeq(collective.a,
                       LAMBDA e : /\ "risk_level" \in DOMAIN e.f
                                  /\ e.f["risk_level"].s \in {<<"High">>, <<"Suspicious">>})))

\* C22, its case: a Suspicious collective record of day 1-2 and one of the
\* same day with the level "high": one bucket of count 1, beside local records.
OnlyHighOrSuspiciousCounted ==
    /\ ev = "load"
    /\ Len(collective.a) = 2
    /\ \A j \in DOMAIN collective.a : UpToT(collective.a[j].f["timestamp"].s) = <<"1", "-", "2">>
    /\ shown["trend"].v.labels = << <<"1", "-", "2">> >>
    /\ shown["trend"].v.data = <<1>>
    /\ Len(scanHistory.a) = 3

\* C23: before any refresh has succeeded the page shows an empty snapshot.
\* The React page, once past its loading screen with data still null (the
\* initial fetch failed), renders threat index 0, behaviour value 0 and no
\* record.  The static page loaded without embedded records holds two empty
\* collections and shows 0 scans, 0 %, 0 quarantined, threat index 0 and Safe.
EmptySnapshotBeforeFirstRefresh ==
    /\ page = "react" /\ data = 0 /\ ~loading =>
          /\ Rendered.screen = "dashboard"
          /\ Rendered.threatIndex = [nan |-> FALSE, n |-> 0]
          /\ Rendered.behaviorValue = [nan |-> FALSE, n |-> 0]
          /\ Rendered.collectiveStats = <<>>
    /\ page = "react" /\ data = 0 /\ loading => Rendered = [screen |-> "loading"]
    /\ page = "static" /\ lastRefreshed = 0
          /\ scanHistory = Arr(<<>>) /\ collective = Arr(<<>>) =>
          /\ \A sl \in {"totalScans", "highRiskPct", "quarantineCount", "threatIndex"} :
                shown[sl].v = [t |-> "number", n |-> 0]
          /\ shown["aiRiskLabel"].v = [t |-> "text", s |-> "Safe"]

\* C23, its case: the initial fetch of the React page has failed and nothing
\* else was fetched.
InitialFetchFailed ==
    /\ page = "react"
    /\ ev = "fetchFail"
    /\ data = 0 /\ ~loading /\ inflight = {} /\ nextId = 2
    /\ Rendered.screen = "dashboard"

\* A collection of body number i as it arrived: empty when the body lacks it.
Arrived(i, k) == IF k \in DOMAIN Bodies[i].f THEN Bodies[i].f[k] ELSE Arr(<<>>)

\* C24: after an auto-refresh tick that ran to its end, scanHistory and
\* collective are the collections of the body answered (the number every slot
\* is tagged with), empty where the body lacks them, and every figure and
\* chart shows what a page freshly loaded with these collections shows:
\* nothing of the collections or the display before the tick is left.
RefreshRecomputesFromScratch ==
    [][ev' = "autoDone" =>
          LET i == shown'["totalScans"].src
              fresh == updateDashboard(scanHistory', collective', [sl \in Slots |-> Html], i)
          IN  /\ scanHistory' = Arrived(i, "scan_history")
              /\ collective' = Arrived(i, "collective_stats")
              /\ \A sl \in Slots : shown'[sl] = fresh.shown[sl]
              /\ shown'["totalScans"].v.n = Len(Arrived(i, "scan_history").a)
      ]_vars

\* C24, its case: a tick was answered a body without collections on a page
\* that had been refreshed before: both collections are empty, 0 scans shown.
RefreshedWithoutCollections ==
    /\ ev = "autoDone"
    /\ shown["totalScans"].src = 3
    /\ scanHistory = Arr(<<>>) /\ collective = Arr(<<>>)
    /\ shown["totalScans"].v.n = 0
    /\ shown["threats"].v.labels = <<>>

\* C25: rescanLoading is true whenever a call of handleRescan awaits its POST
\* or has its poll interval set, and at most one call is in that state.
RescanLoadingWhileActive ==
    /\ \A k \in Rescans : rs[k] \in {"posting", "polling"} => rescanLoading
    /\ Cardinality({k \in Rescans : rs[k] \in {"posting", "polling"}}) <= 1

\* C26: the held data never go backwards: a response that is stored is that
\* of a call of fetchDashboardData issued no earlier than the call whose
\* response is held (data is the issue number of that call).
DataNeverGoesBackwards ==
    [][ev' = "fetchOk" => data' >= data]_vars

LastRefreshedOnlyOnSuccess ==
    /\ [][/\ lastRefreshed' # lastRefreshed =>
                ev' = "autoDone" \/ (ev' = "load" /\ lastRefreshed' = 0)
          /\ ev' \in {"autoNotOk", "autoReject", "autoThrow"} =>
                lastRefreshed' = lastRefreshed
         ]_vars
    /\ [](page = "static" /\ ev \in {"autoNotOk", "autoReject", "autoThrow"}
             /\ pendingTicks < MaxPending => ENABLED AutoTick)

\* C28, its case: a tick stopped by an error of updateDashboard on a page
\* refreshed at time 1, with the next tick already waiting for its response.
FailedTickKeptStamp ==
    /\ ev = "autoThrow"
    /\ lastRefreshed = 1
    /\ pendingTicks = 1
    /\ notice = "warn:Auto-refresh failed"

\* C29: on the React page loading is true exactly while the initial call of
\* fetchDashboardData (call 1) awaits its response; once false it stays
\* false, whatever the polls do; and from then on the component renders the
\* dashboard, never the loading screen.
LoadingOnlyUntilFirstFetch ==
    /\ [](page = "react" => (loading <=> \E f \in inflight : f.id = 1))
    /\ [][~loading => ~loading']_vars
    /\ [](page = "react" /\ ~loading => Rendered.screen = "dashboard")

\* C29, its case: the initial fetch failed, data is still null, and a poll
\* of a rescan awaits its response: loading is false, the dashboard is shown.
PollingWithoutLoadingScreen ==
    /\ page = "react"
    /\ data = 0 /\ ~loading
    /\ \E f \in inflight : f.loop # 0
    /\ Rendered.screen = "dashboard"

\* C30: imapSaving is true only while a call of handleImapConnect awaits a
\* response (of /api/link-imap or of its fetchInboxStatus), so that the
\* Connect Inbox button does not stay disabled as "Connecting..." once the
\* handler has finished; and a request to /api/link-imap is in flight only
\* under a plan that allows IMAP.
ImapSavingReturnsToFalse ==
    /\ imapSaving => \E c \in calls : c.by = "connect"
    /\ (\E c \in calls : c.url = "link-imap") => currentPlan.allow_imap
====
